---- MODULE Spec2Model ----
(***************************************************************************)
(* Living Canvas / Synapse: the canvas graph store, the execution          *)
(* orchestrator and the block registry.                                    *)
(*                                                                         *)
(* The repository holds two implementations of the store and of the        *)
(* orchestrator, and the model carries both, selected by `impl`:           *)
(*   "mem"  - src/src/CanvasManager.ts + src/src/ActionHandler.ts: the     *)
(*            graph is cached in memory (canvasData), ids come from a      *)
(*            counter scanned against the existing ids;                    *)
(*   "file" - src/unnamed/part_008 + src/unnamed/part_007: every store     *)
(*            operation reads the document, changes it and writes it       *)
(*            back, ids come from Math.random.                             *)
(* An asynchronous handler is split at the awaits at which other handlers  *)
(* can run: a run is RunBegin, RunResolve, RunResult, RunEdge,             *)
(* RunComplete.                                                            *)
(***************************************************************************)
EXTENDS Integers, Sequences, FiniteSets, TLC

\* ---------------------------------------------------------------- bounds
MaxNodes == 3
MaxEdges == 2
MaxRuns == 2
MaxId == 3
MaxOps == 3
MaxCalls == 2

\* ------------------------------------------------------- program constants
SmartGap == 50
DefaultOffset == 300
OutputWidth == 300
PayloadX == 100
PayloadY == 100
BlockWidth == 250

NoInputMsg == "No input text found. Connect text nodes to this block."
NoDefMsg == "Block definition not found"
ExecFailMsg == "Block execution failed"
NoError == "<undefined>"

Statuses == {"idle", "processing", "complete", "error"}

\* ------------------------------------------------------------ data shapes
\* livingCanvas of a node that is not a block (the field is absent)
NoLC == [isBlock |-> FALSE, blockType |-> "", status |-> "", config |-> "", error |-> NoError]

LC(blockType, status, config, error) ==
    [isBlock |-> TRUE, blockType |-> blockType, status |-> status, config |-> config, error |-> error]

\* the result of a find() that found nothing
NoNode == [id |-> 0, text |-> "", x |-> 0, y |-> 0, width |-> 0, lc |-> NoLC]

EmptyGraph == [nodes |-> <<>>, edges |-> <<>>]

\* String.prototype.trim() leaves nothing
IsBlank(t) == t \in {"", " ", "  "}

\* the payloads (a node without id) the callers of createNode pass
ContentPayload(t) == [text |-> t, x |-> PayloadX, y |-> PayloadY, width |-> BlockWidth, lc |-> NoLC]

BlockPayload(b) ==
    [text |-> "block", x |-> PayloadX, y |-> PayloadY, width |-> BlockWidth, lc |-> LC(b, "idle", "cfg0", NoError)]

\* a text node, a text node of blanks, a block of a registered type and a block whose type
\* the registry has no definition for
Payloads ==
    {ContentPayload("Hello world"), ContentPayload("  "),
     BlockPayload("core/summarizer"), BlockPayload("community/custom")}

Responses == {"ECHO: Hello world"}

\* ------------------------------------------------------------- sequences
RECURSIVE SelectIndex(_, _, _)
\* Array.prototype.findIndex from position i: the first index whose element has the id, 0 for -1
SelectIndex(s, id, i) ==
    IF i > Len(s) THEN 0
    ELSE IF s[i].id = id THEN i
    ELSE SelectIndex(s, id, i + 1)

findIndex(s, id) == SelectIndex(s, id, 1)

Ids(s) == {s[i].id : i \in 1..Len(s)}

RECURSIVE Filter(_, _)
\* Array.prototype.filter, keeping the elements whose index Keep accepts
Filter(s, keep) ==
    IF s = <<>> THEN <<>>
    ELSE (IF keep[1] THEN <<Head(s)>> ELSE <<>>) \o Filter(Tail(s), Tail(keep))

\* ------------------------------------------------------- store, read side
getNode(g, nodeId) ==
    LET i == findIndex(g.nodes, nodeId) IN IF i = 0 THEN NoNode ELSE g.nodes[i]

hasNode(g, nodeId) == findIndex(g.nodes, nodeId) # 0

\* ---------------------------------------------------- the document as read
\* what a canvas file can hold besides a well-formed canvas: text JSON.parse rejects, an
\* empty or blank file, and an object without its nodes or without its edges array
Unparseable == [malformed |-> "unparseable"]

EmptyContent == [malformed |-> "empty"]

NoNodesContent == [edges |-> <<>>]

NoEdgesContent == [nodes |-> <<>>]

MalformedContents == {Unparseable, EmptyContent, NoNodesContent, NoEdgesContent}

\* JSON.parse returns a value
IsParseable(content) == "malformed" \notin DOMAIN content

WellFormed(content) == {"nodes", "edges"} \subseteq DOMAIN content

\* null, the result of a read that found no canvas
NoData == [absent |-> TRUE]

IsAbsent(data) == "absent" \in DOMAIN data

\* part_008 readCanvasData: blank content is an empty canvas, and a parsed value must
\* have both arrays
readCanvasData(content) ==
    IF content = EmptyContent THEN EmptyGraph
    ELSE IF ~IsParseable(content) THEN NoData
    ELSE IF ~WellFormed(content) THEN NoData
    ELSE content

\* src/src/CanvasManager.ts loadCanvasData: whatever JSON.parse returns is the canvas,
\* and null when it throws
loadCanvasData(content) == IF ~IsParseable(content) THEN NoData ELSE content

\* src/src/CanvasManager.ts getSourceNodes: the nodes, in node order, whose id is the
\* fromNode of an edge into nodeId
getSourceNodesMem(g, nodeId) ==
    LET src == {g.edges[i].fromNode : i \in {j \in 1..Len(g.edges) : g.edges[j].toNode = nodeId}}
    IN Filter(g.nodes, [i \in 1..Len(g.nodes) |-> g.nodes[i].id \in src])

RECURSIVE SourceIdsInEdgeOrder(_, _, _)
\* part_008 getSourceNodes, first loop: a Set keeps insertion order and drops repeats
SourceIdsInEdgeOrder(edges, nodeId, seen) ==
    IF edges = <<>> THEN <<>>
    ELSE LET e == Head(edges) IN
         IF e.toNode = nodeId /\ e.fromNode \notin seen
         THEN <<e.fromNode>> \o SourceIdsInEdgeOrder(Tail(edges), nodeId, seen \cup {e.fromNode})
         ELSE SourceIdsInEdgeOrder(Tail(edges), nodeId, seen)

RECURSIVE NodesOfIds(_, _)
\* part_008 getSourceNodes, second loop: the first node of each id, absent ids skipped
NodesOfIds(g, ids) ==
    IF ids = <<>> THEN <<>>
    ELSE (IF hasNode(g, Head(ids)) THEN <<getNode(g, Head(ids))>> ELSE <<>>) \o NodesOfIds(g, Tail(ids))

getSourceNodesFile(g, nodeId) == NodesOfIds(g, SourceIdsInEdgeOrder(g.edges, nodeId, {}))

RECURSIVE Join(_)
\* Array.prototype.join('\n\n')
Join(texts) ==
    IF texts = <<>> THEN ""
    ELSE IF Len(texts) = 1 THEN texts[1]
    ELSE texts[1] \o "\n\n" \o Join(Tail(texts))

\* src/src/CanvasManager.ts getConnectedText: text nodes with a truthy text
getConnectedText(g, nodeId) ==
    LET s == getSourceNodesMem(g, nodeId)
        kept == Filter(s, [i \in 1..Len(s) |-> s[i].text # ""])
    IN Join([i \in 1..Len(kept) |-> kept[i].text])

\* part_008 getSourceText: texts whose trim() is not empty
getSourceText(g, nodeId) ==
    LET s == getSourceNodesFile(g, nodeId)
        kept == Filter(s, [i \in 1..Len(s) |-> ~IsBlank(s[i].text)])
    IN Join([i \in 1..Len(kept) |-> kept[i].text])

\* the texts whose trim() is empty: the joins of blank texts
BlankJoins == {Join(s) : s \in UNION {[1..k -> {"", " ", "  "}] : k \in 0..(MaxNodes + 1)}}

\* inputText.trim() is empty
TrimIsEmpty(t) == t \in BlankJoins

\* ------------------------------------------------------ store, write side
\* src/src/CanvasManager.ts generateNodeId / generateEdgeId: the while loop stops at the
\* smallest counter no element has
generateCounterId(s) ==
    CHOOSE k \in 1..(Len(s) + 1) : k \notin Ids(s) /\ \A j \in 1..(k - 1) : j \in Ids(s)

\* Math.random().toString(36).substr(2, 9): any id of the id space, taken or not
RandomIds == 1..MaxId

\* { ...nodeData, id: nodeId }
WithId(p, id) == [id |-> id, text |-> p.text, x |-> p.x, y |-> p.y, width |-> p.width, lc |-> p.lc]

pushNode(g, p, id) == [g EXCEPT !.nodes = Append(@, WithId(p, id))]

pushEdge(g, from, to, id) ==
    [g EXCEPT !.edges = Append(@, [id |-> id, fromNode |-> from, toNode |-> to])]

\* { ...node, ...data } and Object.assign(node, updates): the fields of data replace the node's
Merge(node, data) == [f \in DOMAIN node |-> IF f \in DOMAIN data THEN data[f] ELSE node[f]]

\* the update of the first node with the id; the caller has checked that there is one
mergeNode(g, nodeId, data) ==
    LET i == findIndex(g.nodes, nodeId) IN [g EXCEPT !.nodes[i] = Merge(@, data)]

\* a deleteNode that forgets the edges into the node
removeNodeKeepingInbound(g, nodeId) ==
    [nodes |-> Filter(g.nodes, [i \in 1..Len(g.nodes) |-> g.nodes[i].id # nodeId]),
     edges |-> Filter(g.edges, [i \in 1..Len(g.edges) |-> g.edges[i].fromNode # nodeId])]

\* src/src/CanvasManager.ts deleteNode: the node goes, and every edge from it or to it
removeNode(g, nodeId) ==
    [nodes |-> Filter(g.nodes, [i \in 1..Len(g.nodes) |-> g.nodes[i].id # nodeId]),
     edges |-> Filter(g.edges, [i \in 1..Len(g.edges) |->
                  g.edges[i].fromNode # nodeId /\ g.edges[i].toNode # nodeId])]

removeEdge(g, edgeId) ==
    [g EXCEPT !.edges = Filter(@, [i \in 1..Len(g.edges) |-> g.edges[i].id # edgeId])]

\* a placement that looks at the first node only
firstNodePosition(g, referenceNodeId) ==
    IF g.nodes = <<>> THEN [x |-> 100, y |-> 100]
    ELSE [x |-> g.nodes[1].x + g.nodes[1].width + SmartGap, y |-> g.nodes[1].y]

\* src/src/CanvasManager.ts getSmartPosition
getSmartPosition(g, referenceNodeId) ==
    IF referenceNodeId # 0 /\ hasNode(g, referenceNodeId)
    THEN LET r == getNode(g, referenceNodeId) IN [x |-> r.x + r.width + SmartGap, y |-> r.y]
    ELSE IF g.nodes = <<>> THEN [x |-> 100, y |-> 100]
    ELSE LET i == CHOOSE k \in 1..Len(g.nodes) :
                      /\ \A j \in 1..Len(g.nodes) : g.nodes[j].x <= g.nodes[k].x
                      /\ \A j \in 1..(k - 1) : g.nodes[j].x < g.nodes[k].x
             r == g.nodes[i]
         IN [x |-> r.x + r.width + SmartGap, y |-> r.y]

\* part_008 calculateNewNodePosition, called with the default offset
calculateNewNodePosition(parentNode) ==
    [x |-> parentNode.x + parentNode.width + DefaultOffset, y |-> parentNode.y]

\* ------------------------------------------------------------------ state
VARIABLES
    impl,        \* "mem" or "file": which implementation of store and orchestrator runs
    faults,      \* whether vault.modify can fail in this behaviour
    canvasData,  \* "mem": the cached graph of the current canvas file
    doc,         \* the durable canvas document, parsed
    blocks,      \* the registry's index: the ids get(id) answers
    storage,     \* the blocks directory tree on storage
    runs,        \* the handleRunBlock invocations in flight, by slot
    last,        \* the operation that produced this state, and what it returned
    ops,         \* the number of requests made so far (store calls, run requests, resets)
    pending,     \* "file": the store calls that have read the document and not yet written it
    scan,        \* the reloadBlocks in progress: the block directories it has yet to load
    currentCanvasFile,  \* which of two canvas files the active view shows: 1 or 2
    otherDoc     \* the durable document of the canvas file that is not the current one

vars == <<impl, faults, canvasData, doc, blocks, storage, runs, last, ops, pending, scan,
          currentCanvasFile, otherDoc>>

canvasVars == <<canvasData, doc>>
regVars == <<blocks, storage>>
envVars == <<impl, faults, pending, currentCanvasFile, otherDoc, scan, currentCanvasFile, otherDoc>>

\* the graph the store operations of the running implementation work on
Graph == IF impl = "mem" THEN canvasData ELSE doc

FreeRun == [pc |-> "free", nodeId |-> 0, snap |-> NoNode, outId |-> 0, out |-> ""]

Op(name, a, b, res) == [op |-> name, a |-> a, b |-> b, res |-> res]

\* a slot of pending with no call in it
NoCall == [pc |-> "free", kind |-> "", nodeId |-> 0, arg |-> <<>>, data |-> NoData]

NoCalls == [k \in 1..MaxCalls |-> NoCall]

\* no reloadBlocks is in progress
NoScan == [active |-> FALSE, todo |-> {}]

\* vault.modify succeeds, or fails when faults are possible
WriteOutcomes == IF faults THEN {TRUE, FALSE} ELSE {TRUE}

\* src/src/CanvasManager.ts saveCanvasData: a failed write is caught and only logged
saveCanvasData(data, ok) == doc' = IF ok THEN data ELSE doc

\* the lowest free slot of runs
FreeSlot == CHOOSE k \in 1..MaxRuns : runs[k].pc = "free" /\ \A j \in 1..(k - 1) : runs[j].pc # "free"

HasFreeSlot == \E k \in 1..MaxRuns : runs[k].pc = "free"

\* a request arrives (a store call, a run request, a reset): one more of the MaxOps requests
Requested == ops < MaxOps /\ ops' = ops + 1

\* the patches updateNodeData is called with from outside a run
UpdatePatches == {[text |-> "Hello world"]}

\* ----------------------------------------- store operations, "mem" (CanvasManager.ts)
CreateNodeMem(p) ==
    /\ Requested
    /\ impl = "mem"
    /\ IF IsAbsent(canvasData) \/ "nodes" \notin DOMAIN canvasData
       THEN /\ last' = Op("createNode", 0, 0, 0)
            /\ UNCHANGED canvasVars
       ELSE /\ Len(canvasData.nodes) < MaxNodes
            /\ \E ok \in WriteOutcomes :
                LET nodeId == generateCounterId(canvasData.nodes)
                    g == pushNode(canvasData, p, nodeId)
                IN /\ canvasData' = g
                   /\ saveCanvasData(g, ok)
                   /\ last' = Op("createNode", 0, 0, nodeId)
    /\ UNCHANGED <<envVars, regVars, runs>>

CreateEdgeMem(from, to) ==
    /\ Requested
    /\ impl = "mem"
    /\ Len(canvasData.edges) < MaxEdges
    /\ \E ok \in WriteOutcomes :
        LET edgeId == generateCounterId(canvasData.edges)
            g == pushEdge(canvasData, from, to, edgeId)
        IN /\ canvasData' = g
           /\ saveCanvasData(g, ok)
           /\ last' = Op("createEdge", from, to, edgeId)
    /\ UNCHANGED <<envVars, regVars, runs>>

UpdateNodeDataMem(nodeId, data) ==
    /\ Requested
    /\ impl = "mem"
    /\ IF ~hasNode(canvasData, nodeId)
       THEN /\ last' = Op("updateNode", nodeId, 0, 0)
            /\ UNCHANGED canvasVars
       ELSE \E ok \in WriteOutcomes :
            LET g == mergeNode(canvasData, nodeId, data)
            IN /\ canvasData' = g
               /\ saveCanvasData(g, ok)
               /\ last' = Op("updateNode", nodeId, 0, 1)
    /\ UNCHANGED <<envVars, regVars, runs>>

DeleteNodeMem(nodeId) ==
    /\ Requested
    /\ impl = "mem"
    /\ \E ok \in WriteOutcomes :
        LET g == removeNode(canvasData, nodeId)
        IN /\ canvasData' = g
           /\ saveCanvasData(g, ok)
           /\ last' = Op("deleteNode", nodeId, Len(canvasData.nodes) - Len(g.nodes),
                         Len(canvasData.edges) - Len(g.edges))
    /\ UNCHANGED <<envVars, regVars, runs>>

DeleteEdgeMem(edgeId) ==
    /\ Requested
    /\ impl = "mem"
    /\ \E ok \in WriteOutcomes :
        LET g == removeEdge(canvasData, edgeId)
        IN /\ canvasData' = g
           /\ saveCanvasData(g, ok)
           /\ last' = Op("deleteEdge", edgeId, 0, Len(canvasData.edges) - Len(g.edges))
    /\ UNCHANGED <<envVars, regVars, runs>>

\* ------------------------------------------- store operations, "file" (part_008)
\* part_008 writeCanvasData: the document is replaced, or the write fails and false comes back
writeCanvasData(data, ok) == doc' = IF ok THEN data ELSE doc

CreateNodeFile(p) ==
    /\ Requested
    /\ impl = "file"
    /\ LET data == readCanvasData(doc) IN
       IF IsAbsent(data)
       THEN /\ last' = Op("createNode", 0, 0, 0)
            /\ UNCHANGED doc
       ELSE /\ Len(data.nodes) < MaxNodes
            /\ \E nodeId \in RandomIds, ok \in WriteOutcomes :
                /\ writeCanvasData(pushNode(data, p, nodeId), ok)
                /\ last' = Op("createNode", 0, 0, IF ok THEN nodeId ELSE 0)
    /\ UNCHANGED <<envVars, regVars, runs, canvasData>>

CreateEdgeFile(fromNodeId, toNodeId) ==
    /\ Requested
    /\ impl = "file"
    /\ LET data == readCanvasData(doc) IN
       IF IsAbsent(data)
       THEN /\ last' = Op("createEdge", fromNodeId, toNodeId, 0)
            /\ UNCHANGED doc
       ELSE /\ Len(data.edges) < MaxEdges
            /\ IF ~hasNode(data, fromNodeId) \/ ~hasNode(data, toNodeId)
               THEN /\ last' = Op("createEdge", fromNodeId, toNodeId, 0)
                    /\ UNCHANGED doc
               ELSE \E edgeId \in RandomIds, ok \in WriteOutcomes :
                    /\ writeCanvasData(pushEdge(data, fromNodeId, toNodeId, edgeId), ok)
                    /\ last' = Op("createEdge", fromNodeId, toNodeId, IF ok THEN edgeId ELSE 0)
    /\ UNCHANGED <<envVars, regVars, runs, canvasData>>

UpdateNodeDataFile(nodeId, updates) ==
    /\ Requested
    /\ impl = "file"
    /\ LET data == readCanvasData(doc) IN
       IF IsAbsent(data) \/ ~hasNode(data, nodeId)
       THEN /\ last' = Op("updateNode", nodeId, 0, 0)
            /\ UNCHANGED doc
       ELSE \E ok \in WriteOutcomes :
            /\ writeCanvasData(mergeNode(data, nodeId, updates), ok)
            /\ last' = Op("updateNode", nodeId, 0, IF ok THEN 1 ELSE 0)
    /\ UNCHANGED <<envVars, regVars, runs, canvasData>>

\* part_008 readCanvasData called on the current canvas file: a canvas or null
ReadCanvasData ==
    /\ Requested
    /\ impl = "file"
    /\ last' = Op("read", 0, 0, IF IsAbsent(readCanvasData(doc)) THEN 0 ELSE 1)
    /\ UNCHANGED <<envVars, regVars, runs, canvasVars>>

\* src/src/CanvasManager.ts updateCurrentCanvas: the canvas file of the active view is
\* loaded into canvasData
LoadCanvasData ==
    /\ Requested
    /\ impl = "mem"
    /\ canvasData' = loadCanvasData(doc)
    /\ last' = Op("load", 0, 0, IF IsAbsent(canvasData') THEN 0 ELSE 1)
    /\ UNCHANGED <<envVars, regVars, runs, doc>>

\* part_008 createNode and updateNodeData up to the end of their await of vault.read: the
\* call holds the document as it read it
StoreCallRead(k, kind, nodeId, arg) ==
    /\ Requested
    /\ impl = "file"
    /\ pending[k].pc = "free"
    /\ pending' = [pending EXCEPT ![k] =
           [pc |-> "read", kind |-> kind, nodeId |-> nodeId, arg |-> arg, data |-> readCanvasData(doc)]]
    /\ last' = Op("store:read", nodeId, k, 0)
    /\ UNCHANGED <<impl, faults, scan, currentCanvasFile, otherDoc, regVars, runs, canvasVars>>

\* the rest of the call: the change is made in the data the call read, and writeCanvasData
\* replaces the document with it
StoreCallWrite(k) ==
    /\ impl = "file"
    /\ pending[k].pc = "read"
    /\ LET c == pending[k] IN
       IF IsAbsent(c.data) \/ (c.kind = "updateNode" /\ ~hasNode(c.data, c.nodeId))
       THEN /\ last' = Op("store:" \o c.kind, c.nodeId, k, 0)
            /\ UNCHANGED doc
       ELSE /\ c.kind = "createNode" => Len(c.data.nodes) < MaxNodes
            /\ \E ok \in WriteOutcomes :
                /\ writeCanvasData(IF c.kind = "createNode" THEN pushNode(c.data, c.arg, c.nodeId)
                                   ELSE mergeNode(c.data, c.nodeId, c.arg), ok)
                /\ last' = Op("store:" \o c.kind, c.nodeId, k, IF ok THEN 1 ELSE 0)
    /\ pending' = [pending EXCEPT ![k] = NoCall]
    /\ UNCHANGED <<impl, faults, scan, currentCanvasFile, otherDoc, regVars, runs, canvasData, ops>>

\* src/src/CanvasManager.ts getSmartPosition called with a reference id, or with none (0)
GetSmartPosition(referenceNodeId) ==
    /\ impl = "mem"
    /\ LET position == getSmartPosition(canvasData, referenceNodeId)
       IN last' = Op("getSmartPosition", referenceNodeId, position.y, position.x)
    /\ UNCHANGED <<envVars, regVars, runs, canvasVars, ops>>

\* part_008 calculateNewNodePosition called with a node of the document
CalculateNewNodePosition(nodeId) ==
    /\ impl = "file"
    /\ hasNode(doc, nodeId)
    /\ LET position == calculateNewNodePosition(getNode(doc, nodeId))
       IN last' = Op("calculateNewNodePosition", nodeId, position.y, position.x)
    /\ UNCHANGED <<envVars, regVars, runs, canvasVars, ops>>

\* part_010 UIManager.resetBlock, on the node as the document holds it
ResetBlock(nodeId) ==
    /\ Requested
    /\ impl = "file"
    /\ hasNode(doc, nodeId)
    /\ getNode(doc, nodeId).lc.isBlock
    /\ \E ok \in WriteOutcomes :
        LET node == getNode(doc, nodeId)
        IN /\ writeCanvasData(mergeNode(doc, nodeId,
                  [lc |-> [node.lc EXCEPT !.status = "idle", !.error = NoError]]), ok)
           /\ last' = Op("resetBlock", nodeId, 0, IF ok THEN 1 ELSE 0)
    /\ UNCHANGED <<envVars, regVars, runs, canvasData>>

\* --------------------------------------------------------------- registry lookup
\* blockManager.getBlockDefinition(blockType) of ActionHandler.ts: defined or undefined
getBlockDefinition(blockType) == blockType \in blocks

\* ------------------------------------- handleRunBlock, "mem" (ActionHandler.ts)
\* the test both handlers make on the node they looked up: it was found and carries
\* livingCanvas data
isAnyNode(node) == node # NoNode

isLivingCanvasBlock(node) == node # NoNode /\ node.lc.isBlock

\* the catch block: the node is looked up again and, when it is still a block, gets
\* status error and the message
catchError(g, nodeId, message) ==
    LET node == getNode(g, nodeId) IN
    IF node # NoNode /\ node.lc.isBlock
    THEN mergeNode(g, nodeId, [lc |-> [node.lc EXCEPT !.status = "error", !.error = message]])
    ELSE g

\* lines 26-40: getNode, then the write of status processing
RunBeginMem(nodeId) ==
    /\ Requested
    /\ impl = "mem"
    /\ HasFreeSlot
    /\ LET node == getNode(canvasData, nodeId) IN
       IF ~isLivingCanvasBlock(node)
       THEN /\ last' = Op("run:notABlock", nodeId, 0, 0)
            /\ UNCHANGED <<canvasVars, runs>>
       ELSE \E ok \in WriteOutcomes :
            LET g == mergeNode(canvasData, nodeId, [lc |-> [node.lc EXCEPT !.status = "processing"]])
            IN /\ canvasData' = g
               /\ saveCanvasData(g, ok)
               /\ runs' = [runs EXCEPT ![FreeSlot] = [FreeRun EXCEPT !.pc = "marked", !.nodeId = nodeId, !.snap = node]]
               /\ last' = Op("run:processing", nodeId, FreeSlot, 1)
    /\ UNCHANGED <<envVars, regVars>>

\* lines 42-59: block lookup, input resolution, and the call of executeBlock
RunResolveMem(k) ==
    /\ impl = "mem"
    /\ runs[k].pc = "marked"
    /\ LET nodeId == runs[k].nodeId
           failure == IF ~getBlockDefinition(runs[k].snap.lc.blockType) THEN NoDefMsg
                      ELSE IF TrimIsEmpty(getConnectedText(canvasData, nodeId)) THEN NoInputMsg
                      ELSE ""
       IN IF failure # ""
          THEN \E ok \in WriteOutcomes :
               LET g == catchError(canvasData, nodeId, failure)
               IN /\ canvasData' = g
                  /\ saveCanvasData(g, ok)
                  /\ runs' = [runs EXCEPT ![k] = FreeRun]
                  /\ last' = Op(IF failure = NoInputMsg THEN "run:noInput" ELSE "run:noDefinition", nodeId, k, 0)
          ELSE /\ runs' = [runs EXCEPT ![k].pc = "exec"]
               /\ last' = Op("run:invoke", nodeId, k, 1)
               /\ UNCHANGED canvasVars
    /\ UNCHANGED <<envVars, regVars, ops>>

\* lines 55-62 and 188-203: executeBlock returns or throws; createOutputNode
RunResultMem(k) ==
    /\ impl = "mem"
    /\ runs[k].pc = "exec"
    /\ LET nodeId == runs[k].nodeId IN
       \/ \E ok \in WriteOutcomes :
            LET g == catchError(canvasData, nodeId, ExecFailMsg)
            IN /\ canvasData' = g
               /\ saveCanvasData(g, ok)
               /\ runs' = [runs EXCEPT ![k] = FreeRun]
               /\ last' = Op("run:failed", nodeId, k, 0)
       \/ /\ Len(canvasData.nodes) < MaxNodes
          /\ \E result \in Responses, ok \in WriteOutcomes :
            LET position == getSmartPosition(canvasData, nodeId)
                outputNodeId == generateCounterId(canvasData.nodes)
                g == pushNode(canvasData,
                         [text |-> result, x |-> position.x, y |-> position.y,
                          width |-> OutputWidth, lc |-> NoLC], outputNodeId)
            IN /\ canvasData' = g
               /\ saveCanvasData(g, ok)
               /\ runs' = [runs EXCEPT ![k].pc = "node", ![k].outId = outputNodeId, ![k].out = result]
               /\ last' = Op("run:outputNode", nodeId, k, outputNodeId)
    /\ UNCHANGED <<envVars, regVars, ops>>

\* lines 64-72: createEdge from the block to the output node
RunEdgeMem(k) ==
    /\ impl = "mem"
    /\ runs[k].pc = "node"
    /\ Len(canvasData.edges) < MaxEdges
    /\ \E ok \in WriteOutcomes :
        LET edgeId == generateCounterId(canvasData.edges)
            g == pushEdge(canvasData, runs[k].nodeId, runs[k].outId, edgeId)
        IN /\ canvasData' = g
           /\ saveCanvasData(g, ok)
           /\ runs' = [runs EXCEPT ![k].pc = "edge"]
           /\ last' = Op("run:edge", runs[k].nodeId, k, edgeId)
    /\ UNCHANGED <<envVars, regVars, ops>>

\* lines 74-100: the write of status complete from the node as it was when the run began;
\* updateNodeData throws when the node is gone, and the catch block then finds no node
RunCompleteMem(k) ==
    /\ impl = "mem"
    /\ runs[k].pc = "edge"
    /\ LET nodeId == runs[k].nodeId IN
       IF ~hasNode(canvasData, nodeId)
       THEN /\ last' = Op("run:failed", nodeId, k, 0)
            /\ UNCHANGED canvasVars
       ELSE \E ok \in WriteOutcomes :
            LET g == mergeNode(canvasData, nodeId, [lc |-> [runs[k].snap.lc EXCEPT !.status = "complete"]])
            IN /\ canvasData' = g
               /\ saveCanvasData(g, ok)
               /\ last' = Op("run:complete", nodeId, k, runs[k].outId)
    /\ runs' = [runs EXCEPT ![k] = FreeRun]
    /\ UNCHANGED <<envVars, regVars, ops>>

\* --------------------------------------- handleRunBlock, "file" (part_007)
\* part_008 updateNodeData as the orchestrator calls it: false when the node is not in the
\* document or the write fails, and the orchestrator ignores the result
updateNodeDataIn(g, nodeId, updates) ==
    IF hasNode(g, nodeId) THEN mergeNode(g, nodeId, updates) ELSE g

\* lines 250-277
RunBeginFile(nodeId) ==
    /\ Requested
    /\ impl = "file"
    /\ HasFreeSlot
    /\ LET node == getNode(doc, nodeId) IN
       IF ~isLivingCanvasBlock(node)
       THEN /\ last' = Op("run:notABlock", nodeId, 0, 0)
            /\ UNCHANGED <<doc, runs>>
       ELSE \E ok \in WriteOutcomes :
            /\ writeCanvasData(updateNodeDataIn(doc, nodeId, [lc |-> [node.lc EXCEPT !.status = "processing"]]), ok)
            /\ runs' = [runs EXCEPT ![FreeSlot] = [FreeRun EXCEPT !.pc = "marked", !.nodeId = nodeId, !.snap = node]]
            /\ last' = Op("run:processing", nodeId, FreeSlot, 1)
    /\ UNCHANGED <<envVars, regVars, canvasData>>

\* lines 279-298
RunResolveFile(k) ==
    /\ impl = "file"
    /\ runs[k].pc = "marked"
    /\ LET nodeId == runs[k].nodeId IN
       IF TrimIsEmpty(getSourceText(doc, nodeId))
       THEN \E ok \in WriteOutcomes :
            /\ writeCanvasData(updateNodeDataIn(doc, nodeId,
                   [lc |-> [runs[k].snap.lc EXCEPT !.status = "error", !.error = NoInputMsg]]), ok)
            /\ runs' = [runs EXCEPT ![k] = FreeRun]
            /\ last' = Op("run:noInput", nodeId, k, 0)
       ELSE /\ runs' = [runs EXCEPT ![k].pc = "exec"]
            /\ last' = Op("run:invoke", nodeId, k, 1)
            /\ UNCHANGED doc
    /\ UNCHANGED <<envVars, regVars, canvasData, ops>>

\* lines 293-303 and 319-335, 382-395: the result of executeBlock is a success with an
\* output, a failure with an error, or executeBlock throws
RunResultFile(k) ==
    /\ impl = "file"
    /\ runs[k].pc = "exec"
    /\ LET nodeId == runs[k].nodeId IN
       \/ \E ok \in WriteOutcomes :
            /\ writeCanvasData(updateNodeDataIn(doc, nodeId,
                   [lc |-> [runs[k].snap.lc EXCEPT !.status = "error", !.error = ExecFailMsg]]), ok)
            /\ runs' = [runs EXCEPT ![k] = FreeRun]
            /\ last' = Op("run:failed", nodeId, k, 0)
       \/ /\ runs' = [runs EXCEPT ![k] = FreeRun]
          /\ last' = Op("run:threw", nodeId, k, 0)
          /\ UNCHANGED doc
       \/ /\ Len(doc.nodes) < MaxNodes
          /\ \E result \in Responses, outputNodeId \in RandomIds, ok \in WriteOutcomes :
            LET position == calculateNewNodePosition(runs[k].snap)
            IN /\ writeCanvasData(pushNode(doc,
                      [text |-> result, x |-> position.x, y |-> position.y,
                       width |-> OutputWidth, lc |-> NoLC], outputNodeId), ok)
               /\ runs' = [runs EXCEPT ![k].pc = "node", ![k].outId = IF ok THEN outputNodeId ELSE 0,
                                       ![k].out = result]
               /\ last' = Op("run:outputNode", nodeId, k, IF ok THEN outputNodeId ELSE 0)
    /\ UNCHANGED <<envVars, regVars, canvasData, ops>>

\* lines 304-307: createEdge when createNode returned an id
RunEdgeFile(k) ==
    /\ impl = "file"
    /\ runs[k].pc = "node"
    /\ Len(doc.edges) < MaxEdges
    /\ LET nodeId == runs[k].nodeId
           outputNodeId == runs[k].outId
       IN IF outputNodeId = 0 \/ ~hasNode(doc, nodeId) \/ ~hasNode(doc, outputNodeId)
          THEN /\ last' = Op("run:edge", nodeId, k, 0)
               /\ UNCHANGED doc
          ELSE \E edgeId \in RandomIds, ok \in WriteOutcomes :
               /\ writeCanvasData(pushEdge(doc, nodeId, outputNodeId, edgeId), ok)
               /\ last' = Op("run:edge", nodeId, k, IF ok THEN edgeId ELSE 0)
    /\ runs' = [runs EXCEPT ![k].pc = "edge"]
    /\ UNCHANGED <<envVars, regVars, canvasData, ops>>

\* lines 309-318
RunCompleteFile(k) ==
    /\ impl = "file"
    /\ runs[k].pc = "edge"
    /\ \E ok \in WriteOutcomes :
        /\ writeCanvasData(updateNodeDataIn(doc, runs[k].nodeId,
               [lc |-> [runs[k].snap.lc EXCEPT !.status = "complete", !.error = NoError]]), ok)
        /\ last' = Op("run:complete", runs[k].nodeId, k, runs[k].outId)
    /\ runs' = [runs EXCEPT ![k] = FreeRun]
    /\ UNCHANGED <<envVars, regVars, canvasData, ops>>

\* ------------------------------------------ the active view changes (CanvasManager.ts)
\* the active-leaf-change handler updateCurrentCanvas: the view now shows the other canvas
\* file, which becomes the current file and is loaded into canvasData
ActiveLeafChange ==
    /\ Requested
    /\ impl = "mem"
    /\ currentCanvasFile' = 3 - currentCanvasFile
    /\ doc' = otherDoc
    /\ otherDoc' = doc
    /\ canvasData' = loadCanvasData(otherDoc)
    /\ last' = Op("activeLeafChange", 0, 0, currentCanvasFile')
    /\ UNCHANGED <<impl, faults, pending, scan, regVars, runs>>

\* the user runs a block of the first canvas file while the view shows it
RunBeginInFirst(nodeId) ==
    /\ currentCanvasFile = 1
    /\ RunBeginMem(nodeId)

\* ------------------------------------------------ the configuration dialog
\* the configuration a user saves from the configuration dialog
SavedConfig == "cfg1"

\* src/src/UIManager.ts BlockConfigModal.saveConfig on a block the dialog was opened for
SaveConfigMem(nodeId) ==
    /\ Requested
    /\ impl = "mem"
    /\ isLivingCanvasBlock(getNode(canvasData, nodeId))
    /\ \E ok \in WriteOutcomes :
        LET node == getNode(canvasData, nodeId)
            g == mergeNode(canvasData, nodeId, [lc |-> [node.lc EXCEPT !.config = SavedConfig]])
        IN /\ canvasData' = g
           /\ saveCanvasData(g, ok)
           /\ last' = Op("saveConfig", nodeId, 0, 1)
    /\ UNCHANGED <<envVars, regVars, runs>>

\* part_010 BlockConfigView.saveConfiguration
SaveConfigFile(nodeId) ==
    /\ Requested
    /\ impl = "file"
    /\ isLivingCanvasBlock(getNode(doc, nodeId))
    /\ \E ok \in WriteOutcomes :
        LET node == getNode(doc, nodeId)
        IN /\ writeCanvasData(updateNodeDataIn(doc, nodeId, [lc |-> [node.lc EXCEPT !.config = SavedConfig]]), ok)
           /\ last' = Op("saveConfig", nodeId, 0, 1)
    /\ UNCHANGED <<envVars, regVars, runs, canvasData>>

\* ----------------------------------------- handleClarifyText (ActionHandler.ts)
\* the nodes handleClarifyText creates before it calls the executor
ClarifyBlockPayload ==
    [text |-> "AI Clarification", x |-> 100, y |-> 100, width |-> 200,
     lc |-> LC("core/clarifier", "processing", "clarify", NoError)]

ClarifyInputPayload == [text |-> "Question: q Text: t", x |-> 50, y |-> 50, width |-> 300, lc |-> NoLC]

\* the document after a sequence of saves, each of which succeeds or fails: the last data
\* saved, or the document as it was
saveEach(datas, oks) ==
    LET saved == {i \in 1..Len(datas) : oks[i]}
    IN IF saved = {} THEN doc ELSE datas[CHOOSE i \in saved : \A j \in saved : j <= i]

\* lines 103-143: the clarification block in status processing, the input node and the edge
\* between them are created, then executeBlock is called; the three store calls are taken
\* together
ClarifyBeginMem ==
    /\ Requested
    /\ impl = "mem"
    /\ HasFreeSlot
    /\ Len(canvasData.nodes) + 2 <= MaxNodes
    /\ Len(canvasData.edges) < MaxEdges
    /\ \E oks \in [1..3 -> WriteOutcomes] :
        LET clarificationBlockId == generateCounterId(canvasData.nodes)
            g1 == pushNode(canvasData, ClarifyBlockPayload, clarificationBlockId)
            inputNodeId == generateCounterId(g1.nodes)
            g2 == pushNode(g1, ClarifyInputPayload, inputNodeId)
            g3 == pushEdge(g2, inputNodeId, clarificationBlockId, generateCounterId(g2.edges))
        IN /\ canvasData' = g3
           /\ doc' = saveEach(<<g1, g2, g3>>, oks)
           /\ runs' = [runs EXCEPT ![FreeSlot] = [FreeRun EXCEPT !.pc = "clarify",
                           !.nodeId = clarificationBlockId, !.snap = getNode(g2, inputNodeId)]]
           /\ last' = Op("clarify:invoke", clarificationBlockId, FreeSlot, inputNodeId)
    /\ UNCHANGED <<envVars, regVars>>

\* lines 145-185: executeBlock throws and the catch block shows a notice; or it returns and
\* the output node, the edge to it and the status complete are written (updateNodeData
\* throws when the clarification block is gone, which the catch block only reports)
ClarifyResultMem(k) ==
    /\ impl = "mem"
    /\ runs[k].pc = "clarify"
    /\ LET clarificationBlockId == runs[k].nodeId IN
       \/ /\ last' = Op("clarify:failed", clarificationBlockId, k, 0)
          /\ UNCHANGED canvasVars
       \/ /\ Len(canvasData.nodes) < MaxNodes
          /\ Len(canvasData.edges) < MaxEdges
          /\ \E result \in Responses, oks \in [1..3 -> WriteOutcomes] :
            LET position == getSmartPosition(canvasData, clarificationBlockId)
                outputNodeId == generateCounterId(canvasData.nodes)
                g1 == pushNode(canvasData,
                          [text |-> result, x |-> position.x, y |-> position.y,
                           width |-> OutputWidth, lc |-> NoLC], outputNodeId)
                g2 == pushEdge(g1, clarificationBlockId, outputNodeId, generateCounterId(g1.edges))
                found == hasNode(g2, clarificationBlockId)
                g3 == IF found
                      THEN mergeNode(g2, clarificationBlockId,
                               [lc |-> LC("core/clarifier", "complete", "clarify", NoError)])
                      ELSE g2
            IN /\ canvasData' = g3
               /\ doc' = saveEach(<<g1, g2, g3>>, [i \in 1..3 |-> oks[i] /\ (i < 3 \/ found)])
               /\ last' = Op("clarify:done", clarificationBlockId, k, outputNodeId)
    /\ runs' = [runs EXCEPT ![k] = FreeRun]
    /\ UNCHANGED <<envVars, regVars, ops>>

\* part_007 lines 339-379 and 396-408: executeClarification fails and a notice is shown; or
\* it succeeds, the answer node is created and, when a source node was given and the answer
\* node was written, the edge from the source to the answer
ClarifyFile(sourceNodeId) ==
    /\ Requested
    /\ impl = "file"
    /\ \/ /\ last' = Op("clarify:failed", sourceNodeId, 0, 0)
          /\ UNCHANGED doc
       \/ /\ Len(doc.nodes) < MaxNodes
          /\ Len(doc.edges) < MaxEdges
          /\ \E result \in Responses, answerNodeId \in RandomIds, edgeId \in RandomIds,
                oks \in [1..2 -> WriteOutcomes] :
            LET g1 == pushNode(doc, [text |-> result, x |-> 100, y |-> 100, width |-> 350,
                                     lc |-> NoLC], answerNodeId)
                d1 == IF oks[1] THEN g1 ELSE doc
                edge == oks[1] /\ sourceNodeId # 0 /\ hasNode(d1, sourceNodeId)
                g2 == IF edge THEN pushEdge(d1, sourceNodeId, answerNodeId, edgeId) ELSE d1
            IN /\ doc' = IF edge /\ oks[2] THEN g2 ELSE d1
               /\ last' = Op("clarify:done", sourceNodeId, 0, IF oks[1] THEN answerNodeId ELSE 0)
    /\ UNCHANGED <<envVars, regVars, runs, canvasData>>

\* ------------------------------------------------- registry (BlockManager.ts)
\* the block directories createSampleBlocks writes, and one a user adds
SampleDirs == {"core/summarizer", "core/quizzer", "core/ai-grader", "core/translator"}
UserDirs == {"community/custom"}
Dirs == SampleDirs \cup UserDirs

\* what a block directory holds: block.json with every required field non-empty and
\* executor.js ("valid"); block.json without executor.js; executor.js without block.json;
\* a block.json whose name is the empty string; a block.json without a name
DirKinds == {"valid", "noExecutor", "noManifest", "emptyField", "missingField"}

NoRoot == [root |-> FALSE, dirs |-> [d \in Dirs |-> "absent"]]
Seeded == [root |-> TRUE, dirs |-> [d \in Dirs |-> IF d \in SampleDirs THEN "valid" ELSE "absent"]]

\* validateBlockConfig: every required field is !== undefined
validateBlockConfig(kind) == kind \in {"valid", "emptyField"}

\* loadBlock: both files exist and the manifest validates
loadBlock(b, st, d) ==
    IF st.dirs[d] \in {"valid", "emptyField", "missingField"} /\ validateBlockConfig(st.dirs[d])
    THEN b \cup {d} ELSE b

\* scanDirectoryRecursively over the whole tree: loadBlock for every directory with a block.json
scanDirectoryRecursively(b, st) == b \cup {d \in Dirs : loadBlock({}, st, d) # {}}

\* createSampleBlocks: mkdir and the two files of each built-in block
createSampleBlocks(st) ==
    [root |-> TRUE, dirs |-> [d \in Dirs |-> IF d \in SampleDirs THEN "valid" ELSE st.dirs[d]]]

\* a scanBlocksDirectory that writes the sample blocks whether or not the root exists
scanAndSeed(b, st) ==
    [blocks |-> scanDirectoryRecursively(b, st), storage |-> createSampleBlocks(st)]

\* scanBlocksDirectory: the index and the storage it leaves
scanBlocksDirectory(b, st) ==
    IF ~st.root
    THEN [blocks |-> b, storage |-> createSampleBlocks(st)]
    ELSE [blocks |-> scanDirectoryRecursively(b, st), storage |-> st]

\* getBlock
getBlock(blockId) == blockId \in blocks

\* initialize(): called by onload and by the Reload button of the settings tab
Initialize ==
    /\ LET r == scanBlocksDirectory(blocks, storage)
       IN blocks' = r.blocks /\ storage' = r.storage
    /\ last' = Op("initialize", 0, 0, Cardinality(blocks'))
    /\ UNCHANGED <<envVars, canvasVars, runs, ops>>

\* reloadBlocks(): the index is cleared, then the blocks directory is scanned
ReloadBlocks ==
    /\ LET r == scanBlocksDirectory({}, storage)
       IN blocks' = r.blocks /\ storage' = r.storage
    /\ last' = Op("reloadBlocks", 0, 0, Cardinality(blocks'))
    /\ UNCHANGED <<envVars, canvasVars, runs, ops>>

\* reloadBlocks() up to its first await: the index is cleared and scanBlocksDirectory
\* has asked whether the blocks root exists
ReloadClear ==
    /\ ~scan.active
    /\ blocks' = {}
    /\ scan' = [active |-> TRUE, todo |-> Dirs]
    /\ last' = Op("reload:clear", 0, 0, 0)
    /\ UNCHANGED <<impl, faults, pending, currentCanvasFile, otherDoc, canvasVars, runs, ops, storage>>

\* scanBlocksDirectory after exists() has answered: without a root the sample blocks are
\* written and the scan is over
ReloadSeed ==
    /\ scan.active
    /\ ~storage.root
    /\ storage' = createSampleBlocks(storage)
    /\ scan' = NoScan
    /\ last' = Op("reload:done", 0, 0, Cardinality(blocks))
    /\ UNCHANGED <<impl, faults, pending, currentCanvasFile, otherDoc, canvasVars, runs, ops, blocks>>

\* scanDirectoryRecursively reaches one more directory and loadBlock runs on it
ReloadLoad(d) ==
    /\ scan.active
    /\ storage.root
    /\ d \in scan.todo
    /\ blocks' = loadBlock(blocks, storage, d)
    /\ scan' = IF scan.todo = {d} THEN NoScan ELSE [scan EXCEPT !.todo = @ \ {d}]
    /\ last' = Op(IF scan.todo = {d} THEN "reload:done" ELSE "reload:load", 0, 0, Cardinality(blocks'))
    /\ UNCHANGED <<impl, faults, pending, currentCanvasFile, otherDoc, canvasVars, runs, ops, storage>>

\* the user puts a block directory under the blocks root, or changes one
WriteBlockDir(d, kind) ==
    /\ storage.root
    /\ storage.dirs[d] # kind
    /\ storage' = [storage EXCEPT !.dirs[d] = kind]
    /\ last' = Op("writeBlockDir", 0, 0, 0)
    /\ UNCHANGED <<envVars, canvasVars, runs, ops, blocks>>

\* the user removes a block directory
RemoveBlockDir(d) ==
    /\ storage.dirs[d] # "absent"
    /\ storage' = [storage EXCEPT !.dirs[d] = "absent"]
    /\ last' = Op("removeBlockDir", 0, 0, 0)
    /\ UNCHANGED <<envVars, canvasVars, runs, ops, blocks>>

\* the user removes the blocks root
RemoveRoot ==
    /\ storage.root
    /\ storage' = NoRoot
    /\ last' = Op("removeRoot", 0, 0, 0)
    /\ UNCHANGED <<envVars, canvasVars, runs, ops, blocks>>

\* ------------------------------------------------------------ specification
\* the canvas documents a behaviour starts from: an empty canvas, a canvas with one block,
\* and a canvas whose block has an upstream text node
BlockOnly == pushNode(EmptyGraph, BlockPayload("core/summarizer"), 1)

Pipeline ==
    pushEdge(pushNode(pushNode(EmptyGraph, ContentPayload("Hello world"), 1),
                      BlockPayload("core/summarizer"), 2), 1, 2, 1)

InitGraphs == {EmptyGraph, BlockOnly, Pipeline}

Init ==
    /\ impl \in {"mem", "file"}
    /\ faults = FALSE
    /\ pending = NoCalls
    /\ scan = NoScan
    /\ currentCanvasFile = 1
    /\ otherDoc = EmptyGraph
    /\ doc \in InitGraphs
    /\ canvasData = IF impl = "mem" THEN doc ELSE EmptyGraph
    /\ blocks = SampleDirs
    /\ storage = Seeded
    /\ runs = [k \in 1..MaxRuns |-> FreeRun]
    /\ last = Op("init", 0, 0, 0)
    /\ ops = 0

Next ==
    \/ \E p \in Payloads : CreateNodeMem(p)
    \/ \E from, to \in RandomIds : CreateEdgeMem(from, to)
    \/ \E nodeId \in RandomIds, data \in UpdatePatches : UpdateNodeDataMem(nodeId, data)
    \/ \E nodeId \in RandomIds : DeleteNodeMem(nodeId)
    \/ \E edgeId \in RandomIds : DeleteEdgeMem(edgeId)
    \/ \E p \in Payloads : CreateNodeFile(p)
    \/ \E from, to \in RandomIds : CreateEdgeFile(from, to)
    \/ \E nodeId \in RandomIds, data \in UpdatePatches : UpdateNodeDataFile(nodeId, data)
    \/ \E nodeId \in RandomIds : ResetBlock(nodeId)
    \/ \E nodeId \in RandomIds : RunBeginMem(nodeId)
    \/ \E nodeId \in RandomIds : RunBeginFile(nodeId)
    \/ \E k \in 1..MaxRuns : RunResolveMem(k)
    \/ \E k \in 1..MaxRuns : RunResultMem(k)
    \/ \E k \in 1..MaxRuns : RunEdgeMem(k)
    \/ \E k \in 1..MaxRuns : RunCompleteMem(k)
    \/ \E k \in 1..MaxRuns : RunResolveFile(k)
    \/ \E k \in 1..MaxRuns : RunResultFile(k)
    \/ \E k \in 1..MaxRuns : RunEdgeFile(k)
    \/ \E k \in 1..MaxRuns : RunCompleteFile(k)
    \/ ClarifyBeginMem
    \/ \E k \in 1..MaxRuns : ClarifyResultMem(k)
    \/ \E sourceNodeId \in {0} \cup RandomIds : ClarifyFile(sourceNodeId)

Spec == Init /\ [][Next]_vars

\* the same program over a vault whose modify can fail
InitFaults ==
    /\ impl \in {"mem", "file"}
    /\ faults = TRUE
    /\ pending = NoCalls
    /\ scan = NoScan
    /\ currentCanvasFile = 1
    /\ otherDoc = EmptyGraph
    /\ doc \in InitGraphs
    /\ canvasData = IF impl = "mem" THEN doc ELSE EmptyGraph
    /\ blocks = SampleDirs
    /\ storage = Seeded
    /\ runs = [k \in 1..MaxRuns |-> FreeRun]
    /\ last = Op("init", 0, 0, 0)
    /\ ops = 0

SpecFaults == InitFaults /\ [][Next]_vars

\* the in-memory implementation alone: CanvasManager.ts under ActionHandler.ts
InitMem == Init /\ impl = "mem"

NextMem ==
    \/ \E p \in Payloads : CreateNodeMem(p)
    \/ \E from, to \in RandomIds : CreateEdgeMem(from, to)
    \/ \E nodeId \in RandomIds, data \in UpdatePatches : UpdateNodeDataMem(nodeId, data)
    \/ \E nodeId \in RandomIds : DeleteNodeMem(nodeId)
    \/ \E edgeId \in RandomIds : DeleteEdgeMem(edgeId)
    \/ \E nodeId \in RandomIds : RunBeginMem(nodeId)
    \/ \E k \in 1..MaxRuns : RunResolveMem(k)
    \/ \E k \in 1..MaxRuns : RunResultMem(k)
    \/ \E k \in 1..MaxRuns : RunEdgeMem(k)
    \/ \E k \in 1..MaxRuns : RunCompleteMem(k)

SpecMem == InitMem /\ [][NextMem]_vars

\* the store over a canvas file of any content: the in-memory store has loaded nothing
\* yet, the document-based store reads the file in every operation
InitRead ==
    /\ impl \in {"mem", "file"}
    /\ faults = FALSE
    /\ pending = NoCalls
    /\ scan = NoScan
    /\ currentCanvasFile = 1
    /\ otherDoc = EmptyGraph
    /\ doc \in InitGraphs \cup MalformedContents
    /\ canvasData = IF impl = "mem" THEN NoData ELSE EmptyGraph
    /\ blocks = SampleDirs
    /\ storage = Seeded
    /\ runs = [k \in 1..MaxRuns |-> FreeRun]
    /\ last = Op("init", 0, 0, 0)
    /\ ops = 0

NextRead ==
    \/ LoadCanvasData
    \/ \E p \in Payloads : CreateNodeMem(p)
    \/ ReadCanvasData
    \/ \E p \in Payloads : CreateNodeFile(p)
    \/ \E from, to \in RandomIds : CreateEdgeFile(from, to)
    \/ \E nodeId \in RandomIds, data \in UpdatePatches : UpdateNodeDataFile(nodeId, data)

SpecRead == InitRead /\ [][NextRead]_vars

\* store calls of the document-based store that overlap: createNode with an id the
\* generator draws, and updateNodeData
NextOverlap ==
    \/ \E k \in 1..MaxCalls, p \in Payloads, nodeId \in RandomIds : StoreCallRead(k, "createNode", nodeId, p)
    \/ \E k \in 1..MaxCalls, nodeId \in RandomIds, data \in UpdatePatches :
           StoreCallRead(k, "updateNode", nodeId, data)
    \/ \E k \in 1..MaxCalls : StoreCallWrite(k)

InitOverlap == Init /\ impl = "file"

SpecOverlap == InitOverlap /\ [][NextOverlap]_vars

\* the placement functions over canvases whose nodes the user has moved and resized
PlacedNodes(n) ==
    [1..n -> [text : {"Hello world"}, x : {PayloadX, 400}, y : {PayloadY, 200},
              width : {BlockWidth, OutputWidth}, lc : {NoLC}]]

PlacedGraph(f) == [nodes |-> [i \in DOMAIN f |-> WithId(f[i], i)], edges |-> <<>>]

PlacedGraphs == UNION {{PlacedGraph(f) : f \in PlacedNodes(n)} : n \in 0..MaxNodes}

InitPosition ==
    /\ impl \in {"mem", "file"}
    /\ faults = FALSE
    /\ pending = NoCalls
    /\ scan = NoScan
    /\ currentCanvasFile = 1
    /\ otherDoc = EmptyGraph
    /\ doc \in PlacedGraphs
    /\ canvasData = IF impl = "mem" THEN doc ELSE EmptyGraph
    /\ blocks = SampleDirs
    /\ storage = Seeded
    /\ runs = [k \in 1..MaxRuns |-> FreeRun]
    /\ last = Op("init", 0, 0, 0)
    /\ ops = 0

NextPosition ==
    \/ \E referenceNodeId \in {0} \cup RandomIds : GetSmartPosition(referenceNodeId)
    \/ \E nodeId \in RandomIds : CalculateNewNodePosition(nodeId)

SpecPosition == InitPosition /\ [][NextPosition]_vars

\* run requests alone, in both variants, on the canvases of InitGraphs
NextRun ==
    \/ \E nodeId \in RandomIds : RunBeginMem(nodeId)
    \/ \E nodeId \in RandomIds : RunBeginFile(nodeId)
    \/ \E k \in 1..MaxRuns : RunResolveMem(k)
    \/ \E k \in 1..MaxRuns : RunResultMem(k)
    \/ \E k \in 1..MaxRuns : RunEdgeMem(k)
    \/ \E k \in 1..MaxRuns : RunCompleteMem(k)
    \/ \E k \in 1..MaxRuns : RunResolveFile(k)
    \/ \E k \in 1..MaxRuns : RunResultFile(k)
    \/ \E k \in 1..MaxRuns : RunEdgeFile(k)
    \/ \E k \in 1..MaxRuns : RunCompleteFile(k)

SpecRun == Init /\ [][NextRun]_vars

\* the in-memory variant over two canvas files: the runs are started in the first, and the
\* active view goes from one file to the other
InitSwitch ==
    /\ impl = "mem"
    /\ faults = FALSE
    /\ pending = NoCalls
    /\ scan = NoScan
    /\ currentCanvasFile = 1
    /\ doc \in InitGraphs
    /\ otherDoc \in {EmptyGraph, BlockOnly}
    /\ canvasData = doc
    /\ blocks = SampleDirs
    /\ storage = Seeded
    /\ runs = [k \in 1..MaxRuns |-> FreeRun]
    /\ last = Op("init", 0, 0, 0)
    /\ ops = 0

NextSwitch ==
    \/ ActiveLeafChange
    \/ \E nodeId \in RandomIds : RunBeginInFirst(nodeId)
    \/ \E k \in 1..MaxRuns : RunResolveMem(k)
    \/ \E k \in 1..MaxRuns : RunResultMem(k)
    \/ \E k \in 1..MaxRuns : RunEdgeMem(k)
    \/ \E k \in 1..MaxRuns : RunCompleteMem(k)

SpecSwitch == InitSwitch /\ [][NextSwitch]_vars

\* runs, and the configuration dialog saving while they are in flight
NextConfig ==
    \/ \E nodeId \in RandomIds : RunBeginMem(nodeId)
    \/ \E nodeId \in RandomIds : RunBeginFile(nodeId)
    \/ \E k \in 1..MaxRuns : RunResolveMem(k)
    \/ \E k \in 1..MaxRuns : RunResultMem(k)
    \/ \E k \in 1..MaxRuns : RunEdgeMem(k)
    \/ \E k \in 1..MaxRuns : RunCompleteMem(k)
    \/ \E k \in 1..MaxRuns : RunResolveFile(k)
    \/ \E k \in 1..MaxRuns : RunResultFile(k)
    \/ \E k \in 1..MaxRuns : RunEdgeFile(k)
    \/ \E k \in 1..MaxRuns : RunCompleteFile(k)
    \/ \E nodeId \in RandomIds : SaveConfigMem(nodeId)
    \/ \E nodeId \in RandomIds : SaveConfigFile(nodeId)

SpecConfig == Init /\ [][NextConfig]_vars

\* the registry alone, from the constructor: an empty index, over a vault with or without
\* the blocks root
InitRegistry ==
    /\ impl = "mem"
    /\ faults = FALSE
    /\ pending = NoCalls
    /\ scan = NoScan
    /\ currentCanvasFile = 1
    /\ otherDoc = EmptyGraph
    /\ doc = EmptyGraph
    /\ canvasData = EmptyGraph
    /\ blocks = {}
    /\ storage \in {NoRoot, Seeded}
    /\ runs = [k \in 1..MaxRuns |-> FreeRun]
    /\ last = Op("init", 0, 0, 0)
    /\ ops = 0

NextRegistry ==
    \/ Initialize
    \/ ReloadBlocks
    \/ \E d \in UserDirs \cup {"core/summarizer"}, kind \in DirKinds : WriteBlockDir(d, kind)
    \/ \E d \in Dirs : RemoveBlockDir(d)
    \/ RemoveRoot

SpecRegistry == InitRegistry /\ [][NextRegistry]_vars

\* the registry with reloadBlocks taken await by await
NextReload ==
    \/ Initialize
    \/ ReloadClear
    \/ ReloadSeed
    \/ \E d \in Dirs : ReloadLoad(d)
    \/ \E d \in UserDirs \cup {"core/summarizer"}, kind \in DirKinds : WriteBlockDir(d, kind)
    \/ RemoveRoot

SpecReload == InitRegistry /\ [][NextReload]_vars

\* ------------------------------------------------------------------ claims
InFlight(k) == runs[k].pc # "free"

\* the upstream nodes of nodeId as the running implementation resolves them
Upstream(g, nodeId) ==
    IF impl = "mem" THEN getSourceNodesMem(g, nodeId) ELSE getSourceNodesFile(g, nodeId)

\* C1: no two runs are in flight for the same node id: a run request on a node whose run
\* has not finished is rejected and starts nothing
C1_OneRunPerNode ==
    \A j, k \in 1..MaxRuns :
        (j # k /\ InFlight(j) /\ InFlight(k)) => runs[j].nodeId # runs[k].nodeId

\* C2: a block node's status changes only idle -> processing, processing -> complete,
\* processing -> error, or to idle by the reset action
C2_StatusTransitions ==
    [][\A n \in RandomIds :
         LET a == getNode(Graph, n)
             b == getNode(Graph', n)
         IN (a.lc.isBlock /\ b.lc.isBlock /\ a.lc.status # b.lc.status) =>
                \/ <<a.lc.status, b.lc.status>> \in
                       {<<"idle", "processing">>, <<"processing", "complete">>, <<"processing", "error">>}
                \/ b.lc.status = "idle" /\ last'.op = "resetBlock"]_vars

\* C3: both endpoints of every edge are ids of nodes of the graph
C3_EdgesReferenceNodes ==
    \A i \in 1..Len(Graph.edges) :
        hasNode(Graph, Graph.edges[i].fromNode) /\ hasNode(Graph, Graph.edges[i].toNode)

\* C4: the node ids of the graph are pairwise distinct
C4_NodeIdsDistinct ==
    \A i, j \in 1..Len(Graph.nodes) : i # j => Graph.nodes[i].id # Graph.nodes[j].id

\* C5: the step of a run that takes a successful result adds exactly one node, a content
\* node with the result as text that getNode returns for the new id, and the next step
\* adds exactly one edge, from the block node to that node
C5_RunAddsOutputAndEdge ==
    [][/\ last'.op = "run:outputNode" =>
            /\ Len(Graph'.nodes) = Len(Graph.nodes) + 1
            /\ SubSeq(Graph'.nodes, 1, Len(Graph.nodes)) = Graph.nodes
            /\ Graph'.edges = Graph.edges
            /\ LET new == Graph'.nodes[Len(Graph'.nodes)]
               IN /\ new.text = runs'[last'.b].out
                  /\ new.text \in Responses
                  /\ ~new.lc.isBlock
                  /\ getNode(Graph', runs'[last'.b].outId) = new
       /\ last'.op = "run:edge" =>
            /\ Graph'.nodes = Graph.nodes
            /\ Len(Graph'.edges) = Len(Graph.edges) + 1
            /\ SubSeq(Graph'.edges, 1, Len(Graph.edges)) = Graph.edges
            /\ LET e == Graph'.edges[Len(Graph'.edges)]
               IN e.fromNode = last'.a /\ e.toNode = runs[last'.b].outId]_vars

\* C6: when a run resolves its input and the block node has no upstream node, the node
\* gets status error with the no-input message, no node and no edge is added, and the run
\* ends without calling the executor
C6_NoUpstreamIsError ==
    [][\A k \in 1..MaxRuns :
         (runs[k].pc = "marked" /\ runs'[k] # runs[k] /\ Upstream(Graph, runs[k].nodeId) = <<>>) =>
            /\ last'.op = "run:noInput"
            /\ runs'[k].pc = "free"
            /\ Len(Graph'.nodes) = Len(Graph.nodes)
            /\ Graph'.edges = Graph.edges
            /\ LET x == getNode(Graph', runs[k].nodeId)
               IN x.lc.isBlock => x.lc.status = "error" /\ x.lc.error = NoInputMsg]_vars

\* C7: deleteNode(A) leaves no edge whose fromNode or toNode is A, and every other node
\* stays in the graph with the fields it had
C7_DeleteNodeCascades ==
    [][last'.op = "deleteNode" =>
         /\ \A i \in 1..Len(Graph'.edges) :
                Graph'.edges[i].fromNode # last'.a /\ Graph'.edges[i].toNode # last'.a
         /\ \A n \in RandomIds \ {last'.a} : getNode(Graph', n) = getNode(Graph, n)
         /\ Len(Graph'.nodes) = Len(Graph.nodes) - last'.b]_vars

\* on the canvas with one block, createNode has added node 2, createEdge has joined the two
\* nodes and deleteNode(1) has removed the block and the edge: node 2 is there as created
C7_Witness ==
    /\ last = Op("deleteNode", 1, 1, 1)
    /\ ops = 3
    /\ Graph.edges = <<>>
    /\ Graph.nodes = <<WithId(ContentPayload("Hello world"), 2)>>

\* C8: after createNode returns an id, getNode of that id is the payload with the id, and
\* getNode of every id the graph had returns what it returned before
C8_CreateThenGet ==
    [][\A p \in Payloads :
         ((CreateNodeMem(p) \/ CreateNodeFile(p)) /\ last'.res # 0) =>
            /\ getNode(Graph', last'.res) = WithId(p, last'.res)
            /\ \A n \in RandomIds : hasNode(Graph, n) => getNode(Graph', n) = getNode(Graph, n)]_vars

\* C9: createEdge with an endpoint that is not a node's id is rejected and changes neither
\* the graph nor the document
C9_CreateEdgeRejectsMissing ==
    [][(last'.op = "createEdge" /\ (~hasNode(Graph, last'.a) \/ ~hasNode(Graph, last'.b))) =>
         /\ last'.res = 0
         /\ UNCHANGED canvasVars]_vars

\* the block directories a reload has to index: both files, every required field non-empty
ValidDirs(st) == {d \in Dirs : st.dirs[d] = "valid"}

\* the block directories that are not on storage
AbsentDirs(st) == {d \in Dirs : st.dirs[d] = "absent"}

\* C10: a reload through either entry point, over an existing blocks root, leaves get(id)
\* answering for every valid block directory on storage and for no directory that is not
\* on storage
C10_ReloadMatchesStorage ==
    [][(last'.op \in {"initialize", "reloadBlocks"} /\ storage.root) =>
         /\ ValidDirs(storage) \subseteq blocks'
         /\ AbsentDirs(storage) \cap blocks' = {}]_vars

\* C11: when a run fails while it resolves its input or in the executor (a thrown error or a
\* failure result), the block node has status error and an error text, in the graph and in
\* the document, and the step adds no node and no edge
C11_FailureEndsInError ==
    [][last'.op \in {"run:noInput", "run:failed", "run:threw"} =>
         /\ Len(Graph'.nodes) = Len(Graph.nodes)
         /\ Graph'.edges = Graph.edges
         /\ LET x == getNode(Graph', last'.a)
            IN x.lc.isBlock =>
                 /\ x.lc.status = "error"
                 /\ x.lc.error \notin {NoError, ""}
                 /\ getNode(doc', last'.a) = x]_vars

\* C12: when a run whose node is in status processing returns, and no other run is in
\* flight for the node, the node, if it is still a block of the graph, has status complete
\* or error
C12_RunEndsTerminal ==
    [][\A k \in 1..MaxRuns :
         (/\ runs[k].pc \in {"marked", "exec", "node", "edge"}
          /\ runs'[k].pc = "free"
          /\ getNode(Graph, runs[k].nodeId).lc.status = "processing"
          /\ \A j \in 1..MaxRuns : (j # k /\ InFlight(j)) => runs[j].nodeId # runs[k].nodeId) =>
            LET x == getNode(Graph', runs[k].nodeId)
            IN x.lc.isBlock => x.lc.status \in {"complete", "error"}]_vars

\* a store call has returned a success result: an id from createNode or createEdge, a normal
\* return from updateNodeData, deleteNode or deleteEdge
ReportsSuccess(o) ==
    \/ o.op \in {"createNode", "createEdge"} /\ o.res # 0
    \/ o.op = "updateNode" /\ o.res = 1
    \/ o.op \in {"deleteNode", "deleteEdge"}

\* C13: a mutating store call that returns a success result has written its graph to the
\* document: when the write fails the call does not report success
C13_FailedWriteIsReported ==
    [][ReportsSuccess(last') => doc' = Graph']_vars

\* C14: when the executor call of a clarify fails, the step changes neither graph nor
\* document, and no node that this clarify created is in the graph
C14_ClarifyFailureLeavesGraph ==
    [][last'.op = "clarify:failed" =>
         /\ UNCHANGED canvasVars
         /\ last'.b # 0 =>
              /\ ~hasNode(Graph', runs[last'.b].nodeId)
              /\ ~hasNode(Graph', runs[last'.b].snap.id)]_vars

\* C15: a run on a block whose blockType has no registry definition is reported and does
\* not mutate the graph: the step that reports it writes nothing, and the node has the
\* status and the error it had when the run was requested
C15_NoDefinitionLeavesGraph ==
    [][last'.op = "run:noDefinition" =>
         /\ UNCHANGED canvasVars
         /\ LET x == getNode(Graph', last'.a)
            IN x # NoNode =>
                 /\ x.lc.status = runs[last'.b].snap.lc.status
                 /\ x.lc.error = runs[last'.b].snap.lc.error]_vars

\* C16: a run requested on an absent node id or on a node without block data ends as
\* NotABlock: no run is started on such a node, and the step that reports it changes
\* neither the graph, nor the document, nor the runs in flight
C16_NotABlockChangesNothing ==
    [][/\ last'.op = "run:processing" => getNode(Graph, last'.a).lc.isBlock
       /\ last'.op = "run:notABlock" =>
            /\ ~getNode(Graph, last'.a).lc.isBlock
            /\ UNCHANGED <<canvasVars, runs>>]_vars

C16_Witness ==
    /\ last.op = "run:notABlock"
    /\ hasNode(Graph, last.a)
    /\ getNode(Graph, last.a).lc = NoLC
    /\ ops = MaxOps

\* C17: over a document that is not a well-formed canvas (unparseable, empty, without its
\* nodes or without its edges) a read yields absent, and a store operation fails without
\* writing
C17_MalformedReadsAbsent ==
    [][~WellFormed(doc) =>
         /\ last'.op = "read" => last'.res = 0
         /\ last'.op = "load" => IsAbsent(canvasData')
         /\ last'.op \in {"createNode", "createEdge", "updateNode"} =>
              /\ last'.res = 0
              /\ doc' = doc]_vars

\* C18: after every successful run the source node has status complete and no error,
\* also when it carried an error when the run began
C18_CompleteClearsError ==
    [][last'.op = "run:complete" =>
         LET x == getNode(Graph', last'.a)
         IN x # NoNode => /\ x.lc.status = "complete"
                          /\ x.lc.error = NoError]_vars

\* an edge from one node to the other is in the graph
hasEdge(g, from, to) == \E i \in 1..Len(g.edges) : g.edges[i].fromNode = from /\ g.edges[i].toNode = to

\* C19: the output node, its edge and status complete become durable in one write: the
\* step that puts the output node of a run into the document also puts the edge from the
\* source to it there, and the source is complete in the document
C19_OneDurableWrite ==
    [][(last'.op = "run:outputNode" /\ last'.res # 0 /\ doc' # doc) =>
         /\ hasEdge(doc', last'.a, last'.res)
         /\ getNode(doc', last'.a).lc.status = "complete"]_vars

\* C20: the executor is called only after status processing is in the document: when a
\* run goes from its processing write straight to the call of the executor, the document
\* holds status processing for the node
C20_ProcessingDurableBeforeCall ==
    [][(/\ last.op = "run:processing"
        /\ last'.op = "run:invoke"
        /\ last'.b = last.b) =>
         getNode(doc, last'.a).lc.status = "processing"]_vars

\* C21: mutations of one document are serialized, so no update is lost: the write of a
\* store call leaves every node of the document that is not the call's own as it is
C21_NoLostUpdate ==
    [][last'.op \in {"store:createNode", "store:updateNode"} =>
         \A id \in Ids(doc.nodes) \ {last'.a} : getNode(doc', id) = getNode(doc, id)]_vars

\* C22: a reload swaps the catalog in one step: no step of a reload takes a block out of
\* the index while its directory on storage is valid, and while a reload is in progress
\* the index holds every valid block it held before
C22_ReloadSwapsAtomically ==
    [][last'.op \in {"reload:clear", "reload:load"} =>
         \A d \in blocks : storage'.dirs[d] = "valid" => d \in blocks']_vars

\* C23: an initialize or reload over a vault without the blocks root writes the built-in
\* blocks to storage and has them in the index when it returns
C23_SeedingRegistersBuiltins ==
    [][(last'.op \in {"initialize", "reloadBlocks"} /\ ~storage.root) =>
         /\ \A d \in SampleDirs : storage'.dirs[d] = "valid"
         /\ SampleDirs \subseteq blocks']_vars

\* C24: an initialize or reload over an existing blocks root writes nothing to storage
C24_BootstrapIdempotent ==
    [][(last'.op \in {"initialize", "reloadBlocks"} /\ storage.root) => storage' = storage]_vars

C24_Witness ==
    /\ last.op \in {"initialize", "reloadBlocks"}
    /\ storage.root
    /\ storage.dirs["core/summarizer"] = "emptyField"
    /\ storage.dirs["core/quizzer"] = "absent"

\* the block directories that must not be registered: a manifest with a required field
\* missing or empty, or a directory without its manifest or without its logic artifact
RejectedDirs(st) == {d \in Dirs : st.dirs[d] \in {"noExecutor", "noManifest", "emptyField", "missingField"}}

\* C25: a scan does not register a block directory that must be rejected, and registers
\* every valid one beside it
C25_InvalidBlocksSkipped ==
    [][(last'.op \in {"initialize", "reloadBlocks"} /\ storage.root) =>
         /\ \A d \in RejectedDirs(storage) : d \notin blocks => d \notin blocks'
         /\ RejectedDirs(storage) # {} => ValidDirs(storage) \subseteq blocks']_vars

\* the input text the running implementation resolves for a node
ResolvedText(nodeId) ==
    IF impl = "mem" THEN getConnectedText(canvasData, nodeId) ELSE getSourceText(doc, nodeId)

\* C26: the input text of a node is the texts of its upstream nodes that are neither empty
\* nor blank, in the order the upstream nodes are found in, joined by a blank line
C26_InputTextSkipsBlank ==
    \A nodeId \in RandomIds :
        LET s == Upstream(Graph, nodeId)
            kept == Filter(s, [i \in 1..Len(s) |-> ~IsBlank(s[i].text)])
        IN ResolvedText(nodeId) = Join([i \in 1..Len(kept) |-> kept[i].text])

\* the gap the placement of the running implementation adds
Gap == IF impl = "mem" THEN SmartGap ELSE DefaultOffset

\* the point to the right of a node
RightOf(n) == [x |-> n.x + n.width + Gap, y |-> n.y]

\* C27: the insertion point for a reference node of the graph is to the right of it (its x
\* plus its width plus the gap, its y); without a reference in a graph with nodes it is to
\* the right of a node of largest x; and the call leaves graph and document as they are
C27_InsertionPoint ==
    [][last'.op \in {"getSmartPosition", "calculateNewNodePosition"} =>
         LET position == [x |-> last'.res, y |-> last'.b]
             g == Graph
         IN /\ UNCHANGED canvasVars
            /\ hasNode(g, last'.a) => position = RightOf(getNode(g, last'.a))
            /\ (~hasNode(g, last'.a) /\ g.nodes # <<>>) =>
                 \E i \in 1..Len(g.nodes) :
                     /\ \A j \in 1..Len(g.nodes) : g.nodes[j].x <= g.nodes[i].x
                     /\ position = RightOf(g.nodes[i])]_vars

C27_Witness ==
    /\ last.op = "getSmartPosition"
    /\ last.a = 0
    /\ Len(canvasData.nodes) = 2
    /\ canvasData.nodes[1].x < canvasData.nodes[2].x
    /\ last.res = canvasData.nodes[2].x + canvasData.nodes[2].width + SmartGap
    /\ last.b = canvasData.nodes[2].y

\* C28: a run changes only the status and the error of its block node: when the config of
\* the node is saved while the run waits for the executor, and the run then writes its
\* final status, the node still has the saved config and its blockType
C28_RunKeepsConfig ==
    [][(/\ last.op = "saveConfig"
        /\ last'.op = "run:failed"
        /\ last'.a = last.a
        /\ runs[last'.b].pc = "exec") =>
         LET before == getNode(Graph, last'.a)
             after == getNode(Graph', last'.a)
         IN after # NoNode =>
              /\ after.lc.config = SavedConfig
              /\ after.lc.blockType = before.lc.blockType]_vars

\* C29: the writes of a run go to the canvas document that was current when the run
\* started: when the active view goes to the second canvas file while a run started in the
\* first waits for the executor, the step in which the executor's answer is handled
\* leaves the second file's document as it is
C29_RunWritesItsOwnDocument ==
    [][(/\ last.op = "activeLeafChange"
        /\ currentCanvasFile = 2
        /\ last'.op \in {"run:failed", "run:outputNode"}
        /\ runs[last'.b].pc = "exec") =>
         doc' = doc]_vars

\* the edges of a graph that start or end at an id
IncidentEdges(g, id) == {i \in 1..Len(g.edges) : g.edges[i].fromNode = id \/ g.edges[i].toNode = id}

\* C30: a node that createNode has just made has no incident edge: no edge of the graph
\* the call found carries the id the call returns
C30_NewNodeHasNoEdges ==
    [][(last'.op \in {"createNode", "run:outputNode"} /\ last'.res # 0) =>
         IncidentEdges(Graph, last'.res) = {}]_vars

====
